---- MODULE Spec2Model ----
(***************************************************************************)
(* Model of graphAttack/coreGraph.py: the basicGraph container             *)
(* (addOperation) and the Graph operations built on it (parameter codec,   *)
(* forward/backward evaluation, predictions, reset).                       *)
(*                                                                         *)
(* Node objects (Variable, CostOperation, other Operation) are built by    *)
(* the caller before they are handed to the graph; the pool of node        *)
(* objects is chosen in Init and the graph starts empty.                   *)
(***************************************************************************)
EXTENDS Integers, Sequences, FiniteSets, TLC

\* ---------------------------------------------------------------- bounds
NumNodes == 2        \* node objects the caller builds graphs from
MaxOps == 2          \* addOperation calls in one behaviour
MaxParams == 6
\* the numbers a Variable of the graphs of spec P5 and P8 holds: 0 .. MaxValue
MaxValue == 5       \* longest vector handed to attachParameters

PassNodes == 4       \* node objects of the graphs of spec P5 and P8
Pool == 1 .. NumNodes
Nodes == 1 .. (IF NumNodes > PassNodes THEN NumNodes ELSE PassNodes)
None == 0            \* Python's None for a node reference
NoRef == -1          \* referenceNumber of a node that was never registered
Kinds == {"Variable", "CostOperation", "GenericOperation"}
\* operations with the arithmetic of the graphs of spec P5 and P8
Arithmetic == {"AddOne", "TimesTwo", "Product", "Square"}

VARIABLES
    kind,            \* node object -> its class
    inputs,          \* node object -> the node objects it was built from
    operations,      \* basicGraph.operations
    nOperations,     \* basicGraph.nOperations
    endOperations,   \* basicGraph.endOperations
    gradientOps,     \* basicGraph.gradientOps
    finalOperation,  \* basicGraph.finalOperation
    feederOperation, \* basicGraph.feederOperation
    referenceNumber, \* node object -> its referenceNumber
    result,          \* node object -> op.result: a Variable's data, an
                     \* operation's cached value (NoValue when absent)
    gradA,           \* node object -> its cached gradient (NoValue when absent)
    testing,         \* node object -> op.testing, TRUE in evaluation mode
    runs,            \* node object -> how often its computation ran since
                     \* the node was last reset (an access counter)
    resultMode,      \* node object -> the mode its cached value was computed
                     \* in ("none" when it has no computed value)
    call,            \* the last call made on the graph and how it ended
    ret              \* what the last call returned

graphVars == <<operations, nOperations, endOperations, gradientOps,
               finalOperation, feederOperation>>
nodeVars == <<result, gradA, testing, runs, resultMode>>
vars == <<kind, inputs, operations, nOperations, endOperations, gradientOps,
          finalOperation, feederOperation, referenceNumber, result, gradA,
          testing, runs, resultMode, call, ret>>

\* ------------------------------------------------------------ node objects
\* isinstance(op, Variable) / isinstance(op, CostOperation)
isVariable(op) == op # None /\ kind[op] = "Variable"
isCostOperation(op) == op # None /\ kind[op] = "CostOperation"

\* op.outputs: the nodes that were built with op among their inputs
outputs(op) == {m \in Nodes : op \in inputs[m]}

\* The pools the caller can build: an operation is built from node objects
\* that exist already, a Variable from none.
WellBuilt(k, inp) ==
    \A n \in Nodes :
        /\ inp[n] \subseteq 1 .. (n - 1)
        /\ (k[n] = "Variable") <=> (inp[n] = {})

\* ---------------------------------------------------------------- values
\* A value is a matrix, kept as the sequence of its rows; NoValue is the absent
\* cache (Python's None).
NoValue == <<>>
ShapeList == << <<1, 2>>, <<2, 2>>, <<2, 1>>, <<1, 1>> >>

\* op.shape of a value, np.size of a value
shapeOf(m) == <<Len(m), Len(m[1])>>
size(m) == Len(m) * Len(m[1])
elementCount(shp) == shp[1] * shp[2]

RECURSIVE ravel(_)
\* np.ravel: the entries in row-major order
ravel(m) == IF m = <<>> THEN <<>> ELSE Head(m) \o ravel(Tail(m))

\* np.reshape(v, shp), defined when Len(v) = elementCount(shp)
reshape(v, shp) ==
    [i \in 1 .. shp[1] |-> [j \in 1 .. shp[2] |-> v[(i - 1) * shp[2] + j]]]

\* the data the caller builds Variable n with: distinct entries
InitialData(n, shp) ==
    [i \in 1 .. shp[1] |-> [j \in 1 .. shp[2] |->
        10 * n + (i - 1) * shp[2] + j]]

\* ------------------------------------------------------------ list helpers
RECURSIVE RemoveFirst(_, _)
\* list.remove(x): drops the first occurrence of x
RemoveFirst(s, x) ==
    IF s = <<>> THEN <<>>
    ELSE IF Head(s) = x THEN Tail(s)
    ELSE <<Head(s)>> \o RemoveFirst(Tail(s), x)

Range(s) == {s[i] : i \in 1 .. Len(s)}

\* a call that takes no argument, and the state before any call
NoArgs == <<>>
NoCall == [name |-> "none", error |-> "none", args |-> NoArgs]
Ended(name, error, args) == [name |-> name, error |-> error, args |-> args]

\* ------------------------------------------------------------ addOperation
RECURSIVE SinkLoop(_, _, _)
\* for op in self.endOperations[:]: if operation in op.outputs: remove(op)
SinkLoop(copy, ends, operation) ==
    IF copy = <<>> THEN ends
    ELSE SinkLoop(Tail(copy),
                  IF operation \in outputs(Head(copy))
                      THEN RemoveFirst(ends, Head(copy))
                      ELSE ends,
                  operation)

\* the sink list after lines 83-86
SinkUpdate(ends, operation) ==
    LET appended == Append(ends, operation)
    IN  SinkLoop(appended, appended, operation)

\* the identifier line 80 gives the node
NextReference(n) == n

\* a gradient-target check that lets every node pass
gradNeverFails(operation, doGradient) == FALSE

\* line 89: the gradient-target check raises
gradFailsOf(operation, doGradient) == doGradient /\ ~isVariable(operation)

\* the fields of the graph, and of its nodes, that addOperation works on
graphNow ==
    [operations |-> operations, nOperations |-> nOperations,
     endOperations |-> endOperations, gradientOps |-> gradientOps,
     finalOperation |-> finalOperation, feederOperation |-> feederOperation,
     referenceNumber |-> referenceNumber]

\* basicGraph.__init__ (lines 29-35); no node has an identifier yet
emptyGraph ==
    [operations |-> <<>>, nOperations |-> 0, endOperations |-> <<>>,
     gradientOps |-> <<>>, finalOperation |-> None, feederOperation |-> None,
     referenceNumber |-> [n \in Nodes |-> NoRef]]

\* line 79
\* a registration that puts the node in front of the sequence
insertNodeFirst(ops, operation) == <<operation>> \o ops

appendNode(ops, operation) == Append(ops, operation)

\* addOperation on the graph g (lines 79-102): the graph it leaves, the error
\* it raised ("none" when it returned) and what it returned
addOperation(g, operation, doGradient, asFinal, asFeeder) ==
    LET gradFails == gradFailsOf(operation, doGradient)
        feedFails == ~gradFails /\ asFeeder /\ ~isVariable(operation)
    IN  [operations |-> appendNode(g.operations, operation),
         referenceNumber |->
             [g.referenceNumber EXCEPT
                 ![operation] = NextReference(g.nOperations)],
         nOperations |-> g.nOperations + 1,
         endOperations |-> SinkUpdate(g.endOperations, operation),
         gradientOps |->
             IF doGradient /\ ~gradFails
                 THEN Append(g.gradientOps, operation)
                 ELSE g.gradientOps,
         finalOperation |->
             IF asFinal /\ ~gradFails THEN operation ELSE g.finalOperation,
         feederOperation |->
             IF asFeeder /\ ~gradFails /\ ~feedFails
                 THEN operation
                 ELSE g.feederOperation,
         error |-> IF gradFails THEN "InvalidGradientTarget"
                   ELSE IF feedFails THEN "InvalidFeeder"
                   ELSE "none",
         returned |-> IF gradFails \/ feedFails THEN None ELSE operation]

AddOperation(operation, doGradient, asFinal, asFeeder) ==
    /\ Len(operations) < MaxOps
    /\ LET out == addOperation(graphNow, operation, doGradient, asFinal,
                               asFeeder)
       IN  /\ operations' = out.operations
           /\ referenceNumber' = out.referenceNumber
           /\ nOperations' = out.nOperations
           /\ endOperations' = out.endOperations
           /\ gradientOps' = out.gradientOps
           /\ finalOperation' = out.finalOperation
           /\ feederOperation' = out.feederOperation
           /\ call' = [name |-> "addOperation",
                       error |-> out.error,
                       args |-> [node |-> operation,
                                 doGradient |-> doGradient,
                                 finalOperation |-> asFinal,
                                 feederOperation |-> asFeeder]]
           /\ ret' = out.returned
    /\ UNCHANGED <<kind, inputs, nodeVars>>

\* ------------------------------------------------------- node capability
\* What a node object does when the graph calls it (coreOperation.py and
\* coreDataContainers.py).  A CostOperation and a GenericOperation reduce
\* their inputs to one number, the sum of all their entries (the identity on
\* one number); AddOne, TimesTwo, Square and Product work on numbers.  The
\* gradient seed is 1.
RECURSIVE SumSeq(_)
SumSeq(v) == IF v = <<>> THEN 0 ELSE Head(v) + SumSeq(Tail(v))

RECURSIVE SumOver(_, _)
\* the sum of f[x] over the finite set S
SumOver(S, f) ==
    IF S = {} THEN 0
    ELSE LET x == CHOOSE y \in S : TRUE
         IN  f[x] + SumOver(S \ {x}, f)

RECURSIVE ProductOver(_, _)
\* the product of f[x] over the finite set S
ProductOver(S, f) ==
    IF S = {} THEN 1
    ELSE LET x == CHOOSE y \in S : TRUE
         IN  f[x] * ProductOver(S \ {x}, f)

\* a matrix of shape shp with every entry x
fill(shp, x) == [i \in 1 .. shp[1] |-> [j \in 1 .. shp[2] |-> x]]

\* what an operation of class k makes of its inputs, x[m] being the number
\* input m holds
perform(k, x) ==
    CASE k = "AddOne" -> SumOver(DOMAIN x, x) + 1
      [] k = "TimesTwo" -> 2 * SumOver(DOMAIN x, x)
      [] k = "Square" -> SumOver(DOMAIN x, x) * SumOver(DOMAIN x, x)
      [] k = "Product" -> ProductOver(DOMAIN x, x)
      [] OTHER -> SumOver(DOMAIN x, x)

\* the local partial derivative of that operation with respect to input n
partial(k, x, n) ==
    CASE k = "AddOne" -> 1
      [] k = "TimesTwo" -> 2
      [] k = "Square" -> 2 * SumOver(DOMAIN x, x)
      [] k = "Product" -> ProductOver(DOMAIN x \ {n}, x)
      [] OTHER -> 1

\* the operations whose partial derivatives need their inputs' values
readsInputs(m) == kind[m] \in {"Square", "Product"}

RECURSIVE valueOf(_, _)
\* op.getValue() against the caches res: the cached result when there is one,
\* the operation applied to its inputs' values otherwise
valueOf(res, op) ==
    IF res[op] # NoValue THEN res[op]
    ELSE <<<< perform(kind[op],
                      [m \in inputs[op] |->
                          SumSeq(ravel(valueOf(res, m)))]) >>>>

\* the value the operation op computes from its inputs, whatever it has cached
computed(res, op) == valueOf([res EXCEPT ![op] = NoValue], op)

\* the mode a flag stands for
modeOf(flag) == IF flag THEN "evaluation" ELSE "training"

RECURSIVE getValueOfAll(_, _, _)

\* op.getValue() that computes although a result is cached
getValueForgetful(c, t, op) ==
    IF isVariable(op) THEN c
    ELSE LET c1 == getValueOfAll(c, t, inputs[op])
         IN  [res |-> [c1.res EXCEPT ![op] = computed(c1.res, op)],
              runs |-> [c1.runs EXCEPT ![op] = @ + 1],
              mode |-> [c1.mode EXCEPT ![op] = modeOf(t[op])]]

\* op.getValue() as the calls happen, c being the caches (res), the access
\* counters (runs) and the modes of the cached values (mode), t the flags:
\* a cached result is handed back; otherwise the inputs are asked for their
\* values one after the other, the operation runs once and caches its result
getValue(c, t, op) ==
    IF c.res[op] # NoValue THEN c
    ELSE LET c1 == getValueOfAll(c, t, inputs[op])
         IN  [res |-> [c1.res EXCEPT ![op] = computed(c1.res, op)],
              runs |-> [c1.runs EXCEPT ![op] = @ + 1],
              mode |-> [c1.mode EXCEPT ![op] = modeOf(t[op])]]

\* getValue() of every node of S, in the order of their construction
getValueOfAll(c, t, S) ==
    IF S = {} THEN c
    ELSE LET m == CHOOSE x \in S : \A y \in S : x <= y
         IN  getValueOfAll(getValue(c, t, m), t, S \ {m})

\* op.shape: a Variable's follows its data, an operation yields one number
shape(res, op) == IF isVariable(op) THEN shapeOf(res[op]) ELSE <<1, 1>>

\* the numbers the inputs of operation m hold
inputNumbers(res, m) ==
    [i \in inputs[m] |-> SumSeq(ravel(valueOf(res, i)))]

RECURSIVE gradientOfLastOnly(_, _, _, _)
\* a gradient that keeps the contribution of the last consumer only
gradientOfLastOnly(g, res, final, op) ==
    IF g[op] # NoValue THEN g[op]
    ELSE IF op = final THEN fill(shape(res, op), 1)
    ELSE IF outputs(op) = {} THEN fill(shape(res, op), 0)
    ELSE LET m == CHOOSE x \in outputs(op) : \A y \in outputs(op) : y <= x
         IN  fill(shape(res, op),
                  gradientOfLastOnly(g, res, final, m)[1][1]
                      * partial(kind[m], inputNumbers(res, m), op))

RECURSIVE gradientOf(_, _, _, _)
\* op.getGradient() against the gradient caches g: the cached gradient when
\* there is one; the seed for the final node; otherwise the sum, over the
\* consumers in op.outputs, of the consumer's gradient times the consumer's
\* local partial derivative with respect to op
gradientOf(g, res, final, op) ==
    IF g[op] # NoValue THEN g[op]
    ELSE IF op = final THEN fill(shape(res, op), 1)
    ELSE fill(shape(res, op),
              SumOver(outputs(op),
                      [m \in outputs(op) |->
                          gradientOf(g, res, final, m)[1][1]
                              * partial(kind[m], inputNumbers(res, m), op)]))

RECURSIVE gradientComputedBy(_, _, _)
\* the nodes whose gradient op.getGradient() computes
gradientComputedBy(g, final, op) ==
    IF g[op] # NoValue THEN {}
    ELSE IF op = final THEN {op}
    ELSE {op} \cup UNION {gradientComputedBy(g, final, m) : m \in outputs(op)}

\* the gradient caches after op.getGradient()
getGradient(g, res, final, op) ==
    [n \in Nodes |-> IF n \in gradientComputedBy(g, final, op)
                         THEN gradientOf(g, res, final, n)
                         ELSE g[n]]

\* the nodes op.getGradient() asks for their value: the inputs of every
\* consumer whose partial derivative is taken and needs them
valuesReadBy(g, final, op) ==
    UNION {inputs[m] :
              m \in {c \in UNION {outputs(n) :
                                     n \in gradientComputedBy(g, final, op)
                                               \ {final}} :
                        readsInputs(c)}}

\* op.reset(): clears the cached value and gradient; a Variable keeps its data
resetValue(res, op) == IF isVariable(op) THEN res[op] ELSE NoValue

\* ------------------------------------------------------------ Graph.resetAll
\* the caches after resetAll(): every node of self.operations is reset
resetAllResult(res) ==
    [n \in Nodes |-> IF n \in Range(operations) THEN resetValue(res, n)
                     ELSE res[n]]
resetAllGradA(g) ==
    [n \in Nodes |-> IF n \in Range(operations) THEN NoValue ELSE g[n]]

\* the caches, access counters and modes of the cached values as they are
cachesNow == [res |-> result, runs |-> runs, mode |-> resultMode]

\* and after resetAll(): a node that was reset has computed nothing
resetAllCaches(c) ==
    [res |-> resetAllResult(c.res),
     runs |-> [n \in Nodes |-> IF n \in Range(operations) THEN 0
                               ELSE c.runs[n]],
     mode |-> [n \in Nodes |-> IF n \in Range(operations) THEN "none"
                               ELSE c.mode[n]]]

\* the caches c become the state of the nodes
Cached(c) ==
    /\ result' = c.res
    /\ runs' = c.runs
    /\ resultMode' = c.mode

ResetAll ==
    /\ Cached(resetAllCaches(cachesNow))
    /\ gradA' = resetAllGradA(gradA)
    /\ call' = Ended("resetAll", "none", NoArgs)
    /\ ret' = None
    /\ UNCHANGED <<kind, inputs, graphVars, referenceNumber, testing>>

\* ------------------------------------------------------- parameter codec
RECURSIVE unrollValues(_, _, _)
\* the loop of unrollGradientParameters (lines 137-141) over the targets ops,
\* params being what was stacked so far
unrollValues(ops, res, params) ==
    IF ops = <<>> THEN [error |-> "none", vector |-> params]
    ELSE IF ~isVariable(Head(ops))
        THEN [error |-> "InternalInvariantViolation", vector |-> params]
    ELSE unrollValues(Tail(ops), res, params \o ravel(res[Head(ops)]))

UnrollGradientParameters ==
    LET out == unrollValues(gradientOps, result, <<>>)
    IN  /\ call' = Ended("unrollGradientParameters", out.error, NoArgs)
        /\ ret' = IF out.error = "none" THEN out.vector ELSE None
        /\ UNCHANGED <<kind, inputs, graphVars, referenceNumber, nodeVars>>

\* Python's params[pointer : pointer + nElems]: a slice stops at the end of
\* the vector instead of failing
slice(params, pointer, nElems) ==
    LET lo == IF pointer < Len(params) THEN pointer ELSE Len(params)
        hi == IF pointer + nElems < Len(params) THEN pointer + nElems
              ELSE Len(params)
    IN  SubSeq(params, lo + 1, hi)

\* a pointer that moves on by one entry instead of by the target's size
advanceByOne(pointer, nElems) == pointer + 1

\* line 161
advance(pointer, nElems) == pointer + nElems

RECURSIVE attachLoop(_, _, _, _)
\* the loop of attachParameters (lines 154-161) over the targets ops; np.reshape
\* raises when the slice has not the element count of the shape
attachLoop(ops, res, pointer, params) ==
    IF ops = <<>> THEN [error |-> "none", result |-> res]
    ELSE LET op == Head(ops)
         IN  IF ~isVariable(op)
                 THEN [error |-> "InternalInvariantViolation", result |-> res]
             ELSE LET nElems == size(res[op])
                      shaperino == shape(res, op)
                      piece == slice(params, pointer, nElems)
                  IN  IF Len(piece) # elementCount(shaperino)
                          THEN [error |-> "ReshapeError", result |-> res]
                      ELSE attachLoop(Tail(ops),
                                      [res EXCEPT ![op] =
                                          reshape(piece, shaperino)],
                                      advance(pointer, nElems), params)

AttachParameters(params) ==
    LET out == attachLoop(gradientOps, result, 0, params)
    IN  /\ result' = out.result
        /\ call' = Ended("attachParameters", out.error, [params |-> params])
        /\ ret' = None
        /\ UNCHANGED <<kind, inputs, graphVars, referenceNumber, gradA,
                       testing, runs, resultMode>>

\* the caches after op.getGradient() has asked the nodes it needs for
\* their values
valuesRead(g, c, t, op) ==
    getValueOfAll(c, t, valuesReadBy(g, finalOperation, op))

RECURSIVE unrollGradsPrepending(_, _, _, _, _)
\* the loop of unrollGradients with the arguments of hstack exchanged
unrollGradsPrepending(ops, g, c, t, grads) ==
    IF ops = <<>>
        THEN [error |-> "none", vector |-> grads, gradA |-> g, caches |-> c]
    ELSE IF ~isVariable(Head(ops))
        THEN [error |-> "InternalInvariantViolation", vector |-> grads,
              gradA |-> g, caches |-> c]
    ELSE unrollGradsPrepending(
             Tail(ops), getGradient(g, c.res, finalOperation, Head(ops)),
             valuesRead(g, c, t, Head(ops)), t,
             ravel(gradientOf(g, c.res, finalOperation, Head(ops)))
                 \o grads)

RECURSIVE unrollGrads(_, _, _, _, _)
\* the loop of unrollGradients (lines 249-253): g are the gradient caches,
\* filled as the targets are read, c the caches of the values and t the flags
unrollGrads(ops, g, c, t, grads) ==
    IF ops = <<>>
        THEN [error |-> "none", vector |-> grads, gradA |-> g, caches |-> c]
    ELSE IF ~isVariable(Head(ops))
        THEN [error |-> "InternalInvariantViolation", vector |-> grads,
              gradA |-> g, caches |-> c]
    ELSE unrollGrads(Tail(ops),
                     getGradient(g, c.res, finalOperation, Head(ops)),
                     valuesRead(g, c, t, Head(ops)), t,
                     grads \o ravel(gradientOf(g, c.res, finalOperation,
                                               Head(ops))))

UnrollGradients ==
    LET out == unrollGrads(gradientOps, gradA, cachesNow, testing, <<>>)
    IN  /\ gradA' = out.gradA
        /\ Cached(out.caches)
        /\ call' = Ended("unrollGradients", out.error, NoArgs)
        /\ ret' = IF out.error = "none" THEN out.vector ELSE None
        /\ UNCHANGED <<kind, inputs, graphVars, referenceNumber, testing>>

\* ------------------------------------------------- forward and backward
\* a forward pass that resets every node of the graph first
feedForwardAfterReset(c, t) ==
    IF finalOperation = None
        THEN [error |-> "NoFinalOperation", caches |-> resetAllCaches(c),
              value |-> None]
    ELSE [error |-> "none",
          caches |-> getValue(resetAllCaches(c), t, finalOperation),
          value |-> getValue(resetAllCaches(c), t,
                             finalOperation).res[finalOperation]]

\* self.finalOperation.getValue() (line 172) against the caches c; with no
\* final operation the attribute lookup on None raises
feedForward(c, t) ==
    IF finalOperation = None
        THEN [error |-> "NoFinalOperation", caches |-> c, value |-> None]
    ELSE [error |-> "none",
          caches |-> getValue(c, t, finalOperation),
          value |-> getValue(c, t, finalOperation).res[finalOperation]]

FeedForward ==
    LET out == feedForward(cachesNow, testing)
    IN  /\ Cached(out.caches)
        /\ call' = Ended("feedForward", out.error, NoArgs)
        /\ ret' = out.value
        /\ UNCHANGED <<kind, inputs, graphVars, referenceNumber, gradA,
                       testing>>

GetValue ==
    LET out == feedForward(resetAllCaches(cachesNow), testing)
    IN  /\ Cached(out.caches)
        /\ gradA' = resetAllGradA(gradA)
        /\ call' = Ended("getValue", out.error, NoArgs)
        /\ ret' = out.value
        /\ UNCHANGED <<kind, inputs, graphVars, referenceNumber, testing>>

RECURSIVE feedBackwardPrepending(_, _, _, _, _)
\* the loop of feedBackward putting each triple in front of the earlier ones
feedBackwardPrepending(ops, g, c, t, gradients) ==
    IF ops = <<>> THEN [gradients |-> gradients, gradA |-> g, caches |-> c]
    ELSE LET op == Head(ops)
         IN  feedBackwardPrepending(
                 Tail(ops), getGradient(g, c.res, finalOperation, op),
                 valuesRead(g, c, t, op), t,
                 <<<<referenceNumber[op], kind[op],
                     gradientOf(g, c.res, finalOperation, op)>>>>
                     \o gradients)

RECURSIVE feedBackward(_, _, _, _, _)
\* the loop of feedBackward (lines 195-196) over the targets ops
feedBackward(ops, g, c, t, gradients) ==
    IF ops = <<>> THEN [gradients |-> gradients, gradA |-> g, caches |-> c]
    ELSE LET op == Head(ops)
         IN  feedBackward(Tail(ops),
                          getGradient(g, c.res, finalOperation, op),
                          valuesRead(g, c, t, op), t,
                          Append(gradients,
                                 <<referenceNumber[op], kind[op],
                                   gradientOf(g, c.res, finalOperation,
                                              op)>>))

FeedBackward ==
    LET out == feedBackward(gradientOps, gradA, cachesNow, testing, <<>>)
    IN  /\ gradA' = out.gradA
        /\ Cached(out.caches)
        /\ call' = Ended("feedBackward", "none", NoArgs)
        /\ ret' = out.gradients
        /\ UNCHANGED <<kind, inputs, graphVars, referenceNumber, testing>>

GetGradients ==
    LET out == feedBackward(gradientOps, resetAllGradA(gradA),
                            resetAllCaches(cachesNow), testing, <<>>)
    IN  /\ gradA' = out.gradA
        /\ Cached(out.caches)
        /\ call' = Ended("getGradients", "none", NoArgs)
        /\ ret' = out.gradients
        /\ UNCHANGED <<kind, inputs, graphVars, referenceNumber, testing>>

\* ------------------------------------------------------------ predictions
\* lines 228-229 and 235-236: op.testing = flag for every op of the graph
setTesting(t, flag) ==
    [n \in Nodes |-> IF n \in Range(operations) THEN flag ELSE t[n]]

\* the flags makePredictions leaves when the prediction retrieval raises
\* (line 232): the loop of lines 235-236 is not reached
testingAfterFailure(t) == setTesting(t, TRUE)

\* a guard that only looks for a missing final operation
predictionsRefusedWhenAbsent == finalOperation = None

\* line 224: the guard of makePredictions
predictionsRefused == ~isCostOperation(finalOperation)

\* the caches after finalOperation.makePredictions() under the flags t: the
\* inputs of the cost operation are evaluated, the cost itself is not
predicted(c, t) == getValueOfAll(c, t, inputs[finalOperation])

\* a prediction retrieved before the flags are set to evaluation
predictionPassBeforeFlags(c, t) ==
    LET c1 == predicted(resetAllCaches(c), t)
    IN  [caches |-> c1,
         testing |-> setTesting(setTesting(t, TRUE), FALSE),
         value |-> [m \in inputs[finalOperation] |-> c1.res[m]]]

\* lines 227-238 when nothing raises: the flags are set to evaluation, the
\* caches are reset, the prediction is retrieved, the flags are set back
predictionPass(c, t) ==
    LET c1 == predicted(resetAllCaches(c), setTesting(t, TRUE))
    IN  [caches |-> c1,
         testing |-> setTesting(setTesting(t, TRUE), FALSE),
         value |-> [m \in inputs[finalOperation] |-> c1.res[m]]]

\* finalOperation.makePredictions() (line 232): the cost operation evaluates
\* its inputs and hands back what goes into the cost; the collaborator may
\* raise (fails), and then nothing was computed
MakePredictions(fails) ==
    IF predictionsRefused
        THEN /\ call' = Ended("makePredictions",
                              "FinalNodeRequiredForPredictions", NoArgs)
             /\ ret' = None
             /\ UNCHANGED <<kind, inputs, graphVars, referenceNumber,
                            nodeVars>>
    ELSE LET c0 == resetAllCaches(cachesNow)
             out == predictionPass(cachesNow, testing)
         IN  /\ gradA' = resetAllGradA(gradA)
             /\ IF fails
                    THEN /\ Cached(c0)
                         /\ testing' = testingAfterFailure(testing)
                         /\ call' = Ended("makePredictions",
                                          "PredictionFailed", NoArgs)
                         /\ ret' = None
                    ELSE /\ Cached(out.caches)
                         /\ testing' = out.testing
                         /\ call' = Ended("makePredictions", "none", NoArgs)
                         /\ ret' = out.value
             /\ UNCHANGED <<kind, inputs, graphVars, referenceNumber>>

\* ------------------------------------------------------------ specification

\* the graph after basicGraph.__init__, the nodes as their constructors leave
\* them; shapes[n] is the shape of the data Variable n was built with
InitWith(shapes) ==
    /\ operations = <<>>
    /\ nOperations = 0
    /\ endOperations = <<>>
    /\ gradientOps = <<>>
    /\ finalOperation = None
    /\ feederOperation = None
    /\ referenceNumber = [n \in Nodes |-> NoRef]
    /\ result = [n \in Nodes |-> IF kind[n] = "Variable"
                                      THEN InitialData(n, shapes[n])
                                      ELSE NoValue]
    /\ gradA = [n \in Nodes |-> NoValue]
    /\ testing = [n \in Nodes |-> FALSE]
    /\ runs = [n \in Nodes |-> 0]
    /\ resultMode = [n \in Nodes |-> "none"]
    /\ call = NoCall
    /\ ret = None

\* every pool the caller can build from the node objects of Pool; the other
\* node objects are Variables nothing is built from
GeneralPool ==
    \E k \in [Pool -> Kinds], inp \in [Pool -> SUBSET Pool] :
        /\ kind = [n \in Nodes |-> IF n \in Pool THEN k[n] ELSE "Variable"]
        /\ inputs = [n \in Nodes |-> IF n \in Pool THEN inp[n] ELSE {}]
        /\ WellBuilt(kind, inputs)

Init ==
    /\ GeneralPool
    /\ InitWith([n \in Nodes |-> <<1, 1>>])

Next ==
    \E operation \in Pool, doGradient \in BOOLEAN,
       asFinal \in BOOLEAN, asFeeder \in BOOLEAN :
        AddOperation(operation, doGradient, asFinal, asFeeder)

Spec == Init /\ [][Next]_vars

\* ---------------------------------------------- specification of the codec
\* The first two node objects are Variables; Variable n is built with data of
\* shape ShapeList[n] (1 x 2, 2 x 2, 2 x 1, 1 x 1, and round again).  Gradient
\* targets are registered through addOperation and the codec is called with
\* vectors of every length up to MaxParams, their entries all different, and
\* with the vector unrollGradientParameters has just returned.
ParamVectors ==
    {[i \in 1 .. len |-> 50 + i] : len \in 0 .. MaxParams}

\* the vector unrollGradientParameters has just returned, if it has
LastUnrolled ==
    IF call.name = "unrollGradientParameters" /\ call.error = "none"
        THEN {ret} ELSE {}

InitCodec ==
    /\ GeneralPool
    /\ \A n \in Nodes : n <= 2 => kind[n] = "Variable"
    /\ InitWith([n \in Nodes |-> ShapeList[((n - 1) % Len(ShapeList)) + 1]])

NextCodec ==
    \/ \E operation \in Pool, doGradient \in BOOLEAN, asFinal \in BOOLEAN :
           AddOperation(operation, doGradient, asFinal, FALSE)
    \/ UnrollGradientParameters
    \/ \E params \in ParamVectors \cup LastUnrolled : AttachParameters(params)
    \/ UnrollGradients

SpecCodec == InitCodec /\ [][NextCodec]_vars

\* ---------------------------------------- specification of the evaluation
\* Every pool, Variables holding one number each; the graph is assembled and
\* evaluated in any interleaving.
NextPredict ==
    \/ \E operation \in Pool, doGradient \in BOOLEAN, asFinal \in BOOLEAN :
           AddOperation(operation, doGradient, asFinal, FALSE)
    \/ ResetAll
    \/ FeedForward
    \/ GetValue
    \/ FeedBackward
    \/ GetGradients
    \/ \E fails \in BOOLEAN : MakePredictions(fails)

SpecPredict == Init /\ [][NextPredict]_vars

\* --------------------------------------- specification of the whole surface
\* One pool: a Variable holding one number, a cost operation on it, another
\* operation on both, and round again, every operation taking every node
\* built before it as input.  Every operation of the graph is called in any
\* interleaving, with every flag of addOperation.
KindList == <<"Variable", "CostOperation", "GenericOperation">>

SurfacePool ==
    /\ kind = [n \in Nodes |-> IF n \in Pool
                                  THEN KindList[((n - 1) % Len(KindList)) + 1]
                                  ELSE "Variable"]
    /\ inputs = [n \in Nodes |-> IF n \in Pool /\ kind[n] # "Variable"
                                    THEN 1 .. (n - 1) ELSE {}]

\* the empty vector, the vector of one number and the longest vector
SurfaceVectors == {v \in ParamVectors : Len(v) \in {0, 1, MaxParams}}

InitGraph ==
    /\ SurfacePool
    /\ InitWith([n \in Nodes |-> <<1, 1>>])

NextGraph ==
    \/ \E operation \in Pool, doGradient \in BOOLEAN,
          asFinal \in BOOLEAN, asFeeder \in BOOLEAN :
           AddOperation(operation, doGradient, asFinal, asFeeder)
    \/ ResetAll
    \/ FeedForward
    \/ GetValue
    \/ FeedBackward
    \/ GetGradients
    \/ \E fails \in BOOLEAN : MakePredictions(fails)
    \/ UnrollGradientParameters
    \/ \E params \in SurfaceVectors : AttachParameters(params)
    \/ UnrollGradients

SpecGraph == InitGraph /\ [][NextGraph]_vars

\* ------------------------------------------- specification of the passes
\* The graphs of spec P5 and P8 on four node objects, assembled through
\* addOperation and then evaluated in any interleaving:
\*   diamond  A (Variable), B = A + 1, C = A * 2, D = B * C, D final;
\*   chain    x (Variable), Square(x), Square(x) + 1, cost of it, final.
\* The Variable is the gradient target and the feeder and holds one number;
\* new data reach it through attachParameters.
\* The caller registers the four nodes in the order of their construction,
\* or leaves the second node out, which addOperation accepts.
Diamond ==
    [kind |-> <<"Variable", "AddOne", "TimesTwo", "Product">>,
     inputs |-> <<{}, {1}, {1}, {2, 3}>>]

Chain ==
    [kind |-> <<"Variable", "Square", "AddOne", "CostOperation">>,
     inputs |-> <<{}, {1}, {2}, {3}>>]

PassPools == {Diamond, Chain}

Registrations == {<<1, 2, 3, 4>>, <<1, 3, 4>>}

PassValues == 0 .. MaxValue

RECURSIVE assemble(_, _)
\* the graph after addOperation has been called for the nodes of reg in
\* turn, the first node as gradient target and feeder, the last as final
assemble(g, reg) ==
    IF reg = <<>> THEN g
    ELSE assemble(addOperation(g, Head(reg), Head(reg) = 1,
                               Len(reg) = 1, Head(reg) = 1),
                  Tail(reg))

InitPass ==
    /\ \E pool \in PassPools :
           /\ kind = [n \in Nodes |-> IF n \in 1 .. PassNodes
                                          THEN pool.kind[n] ELSE "Variable"]
           /\ inputs = [n \in Nodes |-> IF n \in 1 .. PassNodes
                                            THEN pool.inputs[n] ELSE {}]
    /\ \E reg \in Registrations :
           LET g == assemble(emptyGraph, reg)
           IN  /\ operations = g.operations
               /\ nOperations = g.nOperations
               /\ endOperations = g.endOperations
               /\ gradientOps = g.gradientOps
               /\ finalOperation = g.finalOperation
               /\ feederOperation = g.feederOperation
               /\ referenceNumber = g.referenceNumber
    /\ \E v \in PassValues :
           result = [n \in Nodes |-> IF kind[n] = "Variable" THEN <<<<v>>>>
                                     ELSE NoValue]
    /\ gradA = [n \in Nodes |-> NoValue]
    /\ testing = [n \in Nodes |-> FALSE]
    /\ runs = [n \in Nodes |-> 0]
    /\ resultMode = [n \in Nodes |-> "none"]
    /\ call = NoCall
    /\ ret = None

NextPass ==
    \/ ResetAll
    \/ FeedForward
    \/ GetValue
    \/ FeedBackward
    \/ GetGradients
    \/ \E fails \in BOOLEAN : MakePredictions(fails)
    \/ \E v \in PassValues : AttachParameters(<<v>>)

SpecPass == InitPass /\ [][NextPass]_vars

\* ------------------------------------------------- claims on addOperation
\* The call that has just ended was addOperation.
AddOperationEnded == call'.name = "addOperation"

\* C1: addOperation(node, asGradientTarget=true) on a node that is not a
\* Variable fails with InvalidGradientTarget and leaves the node sequence and
\* the gradient-target list as they were before the call.
C1_RejectedGradientTargetLeavesGraph ==
    [][(AddOperationEnded /\ call'.args.doGradient /\ ~isVariable(call'.args.node))
          => /\ call'.error = "InvalidGradientTarget"
             /\ operations' = operations
             /\ gradientOps' = gradientOps]_vars

\* C2: addOperation(node, asFeeder=true) on a node that is not a Variable
\* fails with InvalidFeeder, whatever the other flags, and leaves the node
\* sequence, identifier counter, sink set, gradient-target list, final
\* reference and feeder reference as they were before the call.
C2_RejectedFeederLeavesGraph ==
    [][(AddOperationEnded /\ call'.args.feederOperation /\ ~isVariable(call'.args.node))
          => /\ call'.error = "InvalidFeeder"
             /\ UNCHANGED graphVars]_vars

\* the node at position i (0-based) of the node sequence has identifier i
DenseIdentifiers ==
    \A i \in 1 .. Len(operations) : referenceNumber[operations[i]] = i - 1

\* an identifier, once given, is kept
IdentifiersKept ==
    \A n \in Nodes :
        referenceNumber[n] # NoRef => referenceNumber'[n] = referenceNumber[n]

\* C3: after any sequence of addOperation calls the node at position i has
\* identifier i, and the identifier a node received at its insertion is never
\* changed by a later operation.
C3_IdentifiersDenseAndKept ==
    [][DenseIdentifiers' /\ IdentifiersKept]_vars

\* the nodes of the graph that no node of the graph lists among its inputs
Sinks ==
    {n \in Range(operations) :
        \A m \in Range(operations) : n \notin inputs[m]}

\* C4: after every addOperation call the sink set (endOperations) is exactly
\* the set of nodes of the graph that no node of the graph lists among its
\* inputs.
C4_SinkSetExact == Range(endOperations) = Sinks

\* C5: the node sequence is a valid dependency order: every input of every
\* node of the sequence is in the sequence at an earlier position.
C5_DependencyOrder ==
    \A i \in 1 .. Len(operations) :
        \A m \in inputs[operations[i]] :
            \E j \in 1 .. (i - 1) : operations[j] = m

\* no node object was registered twice
NoDuplicates ==
    \A i, j \in 1 .. Len(operations) : operations[i] = operations[j] => i = j

\* What addOperation keeps when the caller registers every node once:
\* identifiers are dense and kept.
RegisteredOnceKeepsIdentifiers ==
    [][NoDuplicates' => (DenseIdentifiers' /\ IdentifiersKept)]_vars

\* What addOperation keeps when the caller registers every node once and
\* after its inputs: the sink set is exact.
OrderedOnceKeepsSinks ==
    (C5_DependencyOrder /\ NoDuplicates) => C4_SinkSetExact

\* ------------------------------------------------------ claims on the codec
\* attachParameters has just been handed what unrollGradientParameters
\* returned in the call before
RoundTripEnded ==
    /\ call.name = "unrollGradientParameters"
    /\ call.error = "none"
    /\ call'.name = "attachParameters"
    /\ call'.args.params = ret

\* C6: attachParameters(unrollGradientParameters()) changes no data: every
\* gradient target holds the same value, with the same shape, as before.
C6_RoundTripKeepsTargets ==
    [][RoundTripEnded
          => /\ call'.error = "none"
             /\ \A n \in Range(gradientOps) : result'[n] = result[n]]_vars

\* a round trip over two targets of different shapes, one of them 2 x 2, has
\* ended and the targets hold the data they were built with
C6_Witness ==
    /\ call.name = "attachParameters"
    /\ call.error = "none"
    /\ Len(gradientOps) = 2
    /\ shapeOf(result[gradientOps[1]]) # shapeOf(result[gradientOps[2]])
    /\ \E k \in 1 .. 2 : shapeOf(result[gradientOps[k]]) = <<2, 2>>
    /\ call.args.params = ravel(result[gradientOps[1]])
                              \o ravel(result[gradientOps[2]])
    /\ \A k \in 1 .. 2 :
           result[gradientOps[k]]
               = InitialData(gradientOps[k], shapeOf(result[gradientOps[k]]))

\* the sum of the element counts of the gradient targets before position k
offset(k) ==
    SumOver(1 .. (k - 1), [i \in 1 .. (k - 1) |-> size(result[gradientOps[i]])])
totalElements == offset(Len(gradientOps) + 1)

\* C7: attachParameters(vector) fails for every vector whose length differs
\* from the sum of the element counts of all gradient targets, shorter or
\* longer; it never succeeds by ignoring surplus entries.
C7_WrongLengthFails ==
    [][(call'.name = "attachParameters"
            /\ Len(call'.args.params) # totalElements)
          => call'.error # "none"]_vars

\* the entries of vector v that belong to the k-th gradient target
rangeOf(v, k) ==
    SubSeq(v, offset(k) + 1, offset(k) + size(result[gradientOps[k]]))

\* the k-th entry of the gradient-target list is the last one for its node
lastEntry(k) ==
    \A j \in (k + 1) .. Len(gradientOps) : gradientOps[j] # gradientOps[k]

\* C8: unrollGradients() and unrollGradientParameters() are index-aligned:
\* both vectors have the length of all targets' element counts together, the
\* k-th target's value and gradient fill the same index range, which starts
\* at the sum of the element counts of the targets before it, and
\* attachParameters reads the k-th target's data from that range.
C8_IndexAligned ==
    /\ (call.name = "unrollGradientParameters" /\ call.error = "none")
          => /\ Len(ret) = totalElements
             /\ \A k \in 1 .. Len(gradientOps) :
                    rangeOf(ret, k) = ravel(result[gradientOps[k]])
    /\ (call.name = "unrollGradients" /\ call.error = "none")
          => /\ Len(ret) = totalElements
             /\ \A k \in 1 .. Len(gradientOps) :
                    /\ shapeOf(gradA[gradientOps[k]])
                           = shapeOf(result[gradientOps[k]])
                    /\ rangeOf(ret, k) = ravel(gradA[gradientOps[k]])
    /\ (call.name = "attachParameters" /\ call.error = "none")
          => \A k \in 1 .. Len(gradientOps) :
                 lastEntry(k) =>
                     ravel(result[gradientOps[k]]) = rangeOf(call.args.params, k)

\* unrollGradients has returned the gradients of two different targets of
\* different sizes, and the two gradients differ
C8_Witness ==
    /\ call.name = "unrollGradients"
    /\ call.error = "none"
    /\ Len(gradientOps) = 2
    /\ size(result[gradientOps[1]]) # size(result[gradientOps[2]])
    /\ gradA[gradientOps[1]][1][1] # gradA[gradientOps[2]][1][1]

\* ------------------------------------------------- claims on predictions
\* C9: when makePredictions() ends, on every exit path, every node of the
\* graph has its mode flag at training, also when the prediction retrieval
\* fails after the flags were set to evaluation.
C9_FlagsRestoredOnEveryExit ==
    [][call'.name = "makePredictions"
          => \A n \in Range(operations) : testing'[n] = FALSE]_vars

\* C10: with the final reference absent or not a CostOperation,
\* makePredictions() fails with FinalNodeRequiredForPredictions and changes
\* nothing: no mode flag is altered, no cached value or gradient is cleared.
C10_RefusedPredictionsChangeNothing ==
    [][(call'.name = "makePredictions"
            /\ (finalOperation = None
                   \/ kind[finalOperation] # "CostOperation"))
          => /\ call'.error = "FinalNodeRequiredForPredictions"
             /\ UNCHANGED <<graphVars, referenceNumber, nodeVars>>]_vars

\* makePredictions was refused on a graph whose final node, not a
\* CostOperation, holds a cached value
C10_Witness ==
    /\ call.name = "makePredictions"
    /\ call.error = "FinalNodeRequiredForPredictions"
    /\ finalOperation # None
    /\ ~isVariable(finalOperation)
    /\ result[finalOperation] # NoValue

\* ------------------------------------------- claims on failed assignments
\* C20: attachParameters is all-or-nothing: when a call fails, no gradient
\* target's value has been changed by it; targets earlier in the list are not
\* left holding new data while later targets keep their old data.
C20_FailedAttachChangesNothing ==
    [][(call'.name = "attachParameters" /\ call'.error # "none")
          => \A k \in 1 .. Len(gradientOps) :
                 result'[gradientOps[k]] = result[gradientOps[k]]]_vars

\* ------------------------------------------------- claims on the gradients
\* the gradient-target list after an addOperation call: the node is appended
\* when the call asked for a gradient target and succeeded
TargetsAfterAdd ==
    IF call'.error = "none" /\ call'.args.doGradient
        THEN Append(gradientOps, call'.args.node)
        ELSE gradientOps

\* C16: getGradients() returns exactly one (identifier, name, gradient) triple
\* per entry of the gradient-target list, in list order, which is the order
\* of the successful addOperation calls with asGradientTarget=true; the
\* identifier in the k-th triple is the identifier of the k-th gradient
\* target.
C16_OneTriplePerTargetInOrder ==
    [][/\ call'.name = "addOperation" => gradientOps' = TargetsAfterAdd
       /\ call'.name # "addOperation" => gradientOps' = gradientOps
       /\ call'.name \in {"getGradients", "feedBackward"}
             => /\ Len(ret') = Len(gradientOps)
                /\ \A k \in 1 .. Len(gradientOps) :
                       /\ Len(ret'[k]) = 3
                       /\ ret'[k][1] = referenceNumber[gradientOps[k]]
                       /\ ret'[k][2] = kind[gradientOps[k]]
                       /\ ret'[k][3] = gradA'[gradientOps[k]]]_vars

\* getGradients has returned the triples of two targets that were registered
\* against the order of their construction
C16_Witness ==
    /\ call.name = "getGradients"
    /\ Len(gradientOps) = 2
    /\ gradientOps[1] > gradientOps[2]
    /\ Len(ret) = 2
    /\ ret[1][1] # ret[2][1]

\* ------------------------------------------------- claims on the caches
\* C15: feedForward() performs no reset: it clears no node's cached value or
\* gradient, every cache entry present before the call is present and
\* unchanged after it, and when the final node's value is already cached it
\* returns that cached value.
C15_FeedForwardResetsNothing ==
    [][call'.name = "feedForward"
          => /\ \A n \in Nodes :
                    /\ result[n] # NoValue => result'[n] = result[n]
                    /\ gradA[n] # NoValue => gradA'[n] = gradA[n]
             /\ (finalOperation # None /\ result[finalOperation] # NoValue)
                   => ret' = result[finalOperation]]_vars

\* feedForward has ended on a graph where an operation other than the final
\* node holds a cached value and a node holds a cached gradient
C15_Witness ==
    /\ call.name = "feedForward"
    /\ call.error = "none"
    /\ ret = result[finalOperation]
    /\ \E n \in Range(operations) :
           /\ ~isVariable(n)
           /\ n # finalOperation
           /\ result[n] # NoValue
    /\ \E m \in Range(operations) : gradA[m] # NoValue

\* ------------------------------------------- claims on the whole surface
\* C17: in every state reachable through addOperation, every entry of the
\* gradient-target list is a Variable, so the defensive non-Variable checks
\* in unrollGradientParameters, attachParameters and unrollGradients
\* (InternalInvariantViolation) are never triggered.
C17_TargetsAreVariables ==
    /\ \A k \in 1 .. Len(gradientOps) : kind[gradientOps[k]] = "Variable"
    /\ call.error # "InternalInvariantViolation"

\* attachParameters has succeeded on a graph with a gradient target and a
\* registered node that is not a Variable
C17_Witness ==
    /\ call.name = "attachParameters"
    /\ call.error = "none"
    /\ gradientOps # <<>>
    /\ \E n \in Range(operations) : kind[n] # "Variable"

\* C18: the graph structure is append-only: addOperation only appends to the
\* node sequence and to the gradient-target list and never removes or
\* reorders their entries, and getValue, feedForward, getGradients,
\* feedBackward, unrollGradientParameters, unrollGradients, attachParameters,
\* makePredictions and resetAll leave the node sequence, identifier counter,
\* sink set, gradient-target list, feeder reference and final reference
\* unchanged.
C18_AppendOnly ==
    [][/\ call'.name = "addOperation"
             => /\ operations' \in {operations,
                                    Append(operations, call'.args.node)}
                /\ gradientOps' \in {gradientOps,
                                     Append(gradientOps, call'.args.node)}
       /\ call'.name # "addOperation"
             => UNCHANGED <<operations, nOperations, endOperations,
                            gradientOps, feederOperation,
                            finalOperation>>]_vars

\* makePredictions has succeeded on a full graph that has a feeder and a
\* gradient target
C18_Witness ==
    /\ call.name = "makePredictions"
    /\ call.error = "none"
    /\ Len(operations) = MaxOps
    /\ feederOperation # None
    /\ gradientOps # <<>>

\* ------------------------------------------------- claims on the passes
\* the number a node holds
numberOf(res, n) == res[n][1][1]

\* the graph is the diamond of spec P5
IsDiamond == kind[4] = "Product"

\* every node of the pool is registered
FullyRegistered == Range(operations) = 1 .. PassNodes

\* the contributions of the consumers of op, each the gradient the consumer
\* holds times its local partial derivative with respect to op, summed
SumOfContributions(g, res, op) ==
    SumOver(outputs(op),
            [m \in outputs(op) |->
                numberOf(g, m) * partial(kind[m], inputNumbers(res, m), op)])

\* C11: the gradient getGradients() reports for a gradient target is the sum
\* of the chain-rule contributions of every consumer in that node's outputs,
\* never only the last contribution: in the diamond B = A + 1, C = A * 2,
\* D = B * C with D final, all four in the graph, the gradient of A equals
\* C * 1 + B * 2 for every input value of A.
C11_DiamondGradientIsSum ==
    [][call'.name = "getGradients"
          => /\ \A k \in 1 .. Len(gradientOps) :
                    gradientOps[k] # finalOperation
                        => ret'[k][3] =
                               <<<< SumOfContributions(gradA', result',
                                                       gradientOps[k]) >>>>
             /\ (IsDiamond /\ FullyRegistered)
                   => /\ ret'[1][3] = <<<< numberOf(result', 3) * 1
                                             + numberOf(result', 2) * 2 >>>>
                      /\ ret'[1][3] = <<<< 4 * numberOf(result, 1)
                                             + 2 >>>>]_vars

\* getGradients has reported 14 for A = 3 on the fully registered diamond
C11_Witness ==
    /\ call.name = "getGradients"
    /\ IsDiamond
    /\ FullyRegistered
    /\ numberOf(result, 1) = 3
    /\ numberOf(result, 2) = 4
    /\ numberOf(result, 3) = 6
    /\ ret[1][3] = <<<<14>>>>

\* a value read that succeeded
ValueRead(c) == c.name \in {"feedForward", "getValue"} /\ c.error = "none"

\* C12: between two consecutive resets, each node's underlying computation
\* runs at most once, however many consumers or repeated feedForward() calls
\* request its value, and two value reads with no reset between them return
\* the identical cached result.
C12_ComputedOncePerPass ==
    [][/\ \A n \in Nodes : runs'[n] <= 1
       /\ (ValueRead(call) /\ call'.name = "feedForward")
             => /\ ret' = ret
                /\ runs' = runs
                /\ result' = result]_vars

\* on the diamond, after a forward pass has computed D, a backward pass has
\* asked B and C for their values once more, and each has computed once
C12_Witness ==
    /\ call.name = "feedBackward"
    /\ IsDiamond
    /\ FullyRegistered
    /\ runs[2] = 1
    /\ runs[3] = 1
    /\ runs[4] = 1
    /\ gradA[1] # NoValue

\* the caches with nothing in them but the data of the Variables
dataOnly(res) == [n \in Nodes |-> IF isVariable(n) THEN res[n] ELSE NoValue]

\* the value of the final node computed from the data the Variables hold now
freshValue(res) == valueOf(dataOnly(res), finalOperation)

\* the gradient of op computed from the data the Variables hold now
freshGradient(res, op) ==
    gradientOf([n \in Nodes |-> NoValue], dataOnly(res), finalOperation, op)

\* what getValue() and getGradients() have returned is computed from the data
\* the Variables hold now
ReturnedFresh ==
    /\ (call'.name = "getValue" /\ call'.error = "none")
          => ret' = freshValue(result')
    /\ call'.name = "getGradients"
          => \A k \in 1 .. Len(gradientOps) :
                 ret'[k][3] = freshGradient(result', gradientOps[k])

\* C13: getValue() and getGradients() never return a result taken from a cache
\* filled before the most recent data change: after any sequence of passes
\* followed by attachParameters(v) or a feeder data assignment, the next
\* getValue() equals the final node's value computed from the data now held
\* by the Variables (for Feeder x -> Square -> +1 -> identity cost, getValue()
\* is 10 with x = 3 and 26 after attachParameters([5])).
C13_NeverStale == [][ReturnedFresh]_vars

\* supporting fact: with every node of the pool in the node sequence,
\* getValue() and getGradients() return what the data now held give
FreshWhenRegistered == [][FullyRegistered => ReturnedFresh]_vars

\* the graph is the chain of spec P8
IsChain == kind[4] = "CostOperation"

\* C14: in a successful makePredictions() the steps happen in this order:
\* every node's mode flag is set to evaluation, then every node's caches are
\* reset, then the final node's prediction is retrieved, then every flag is
\* set to training; so the prediction is computed while all nodes are in
\* evaluation mode and uses no value cached by an earlier training-mode pass.
\* The nodes are those of the graph.
C14_PredictionStepsInOrder ==
    [][(call'.name = "makePredictions" /\ call'.error = "none")
          => /\ \A n \in Range(operations) :
                    /\ testing'[n] = FALSE
                    /\ gradA'[n] = NoValue
                    /\ n = finalOperation => result'[n] = NoValue
                    /\ (~isVariable(n) /\ result'[n] # NoValue)
                          => /\ resultMode'[n] = "evaluation"
                             /\ runs'[n] = 1
             /\ ret' = [m \in inputs[finalOperation] |-> result'[m]]
             /\ \A m \in inputs[finalOperation] : result'[m] # NoValue
             /\ FullyRegistered
                   => \A m \in inputs[finalOperation] :
                          ret'[m] = valueOf(dataOnly(result), m)]_vars

\* makePredictions has succeeded on the fully registered chain with x = 3:
\* the prediction is 10, computed in evaluation mode, and the flags are back
\* at training
C14_Witness ==
    /\ call.name = "makePredictions"
    /\ call.error = "none"
    /\ IsChain
    /\ FullyRegistered
    /\ numberOf(result, 1) = 3
    /\ ret[3] = <<<<10>>>>
    /\ resultMode[2] = "evaluation"
    /\ resultMode[3] = "evaluation"
    /\ \A n \in 1 .. PassNodes : testing[n] = FALSE

\* C19: whenever no Graph operation is in progress, every cached value held
\* by a node was computed under that node's current mode flag: in particular,
\* after makePredictions() returns and the flags are back to training, no node
\* still holds a value cached in evaluation mode, so a following feedForward()
\* does not return an evaluation-mode result.
C19_CachesMatchMode ==
    \A n \in Nodes :
        resultMode[n] # "none" => resultMode[n] = modeOf(testing[n])

====
